---- MODULE Spec2Model ----
(***************************************************************************)
(* DevTranspiler: a model of the response sanitizer (src/utils/sanitize.js),*)
(* the AI readiness probes and the conversion handler (src/App.jsx) and the *)
(* copy button (src/components/CopyButton.jsx).                             *)
(*                                                                          *)
(* A JavaScript string is modelled as the sequence of its UTF-16 code       *)
(* units, each code unit written as a TLA+ string naming it.                 *)
(***************************************************************************)
EXTENDS Integers, Sequences, FiniteSets, TLC

VARIABLES
    \* -- a call of one exported function of sanitize.js
    called,     \* which function has been applied
    argText,    \* its `text` argument
    argMax,     \* its `maxLen` argument (truncateOutput)
    argBlocks,  \* how argText was put together from fenced blocks, if it was
    ret,        \* the string it returned
    retAgain,   \* stripFences applied to ret
    retBool,    \* the boolean hasDangerousShell returned
    \* -- the host environment
    puter,        \* window.puter: whether it is loaded and what puter.ai offers
    readyPromise, \* the state of the promise ai.ready, when ai.ready is one
    \* -- one run of checkAiReadyWithRetries
    prArgs,     \* { attempts, baseTimeout, allowPing }
    prPc,       \* where the run stands
    prI,        \* the loop variable i
    prLog,      \* the capability calls, timed waits and sleeps so far
    prWaited,   \* milliseconds spent in timers that ran out (timeouts, sleeps)
    prOk,       \* the value returned
    \* -- the App component
    sourceLang,  \* useState: the source language
    inputCode,   \* useState: the editor content
    outputCode,  \* useState: the displayed result
    aiReady,     \* useState: the readiness flag
    isLoading,   \* useState: the busy flag
    prevExample, \* prevExampleRef.current
    runs,        \* the runs of initPuter started by the mount effect
    chatPending, \* how many ai.chat(prompt) calls of conversions are unsettled
    toast,       \* the notice shown last
    \* -- one CopyButton
    copyProps,   \* its props text and disabled
    copied,      \* useState: the transient "copied" state
    copyWrites,  \* the unsettled navigator.clipboard.writeText calls
    copyTimers,  \* the expiry times of the pending setTimeout callbacks, in order
    copyLast,    \* the callback called last and the time of the last success
    copyClicks,  \* how many times the button has been clicked
    now          \* the time in milliseconds

pureVars == <<called, argText, argMax, argBlocks, ret, retAgain, retBool>>

envVars == <<puter, readyPromise>>

probeVars == <<prArgs, prPc, prI, prLog, prWaited, prOk>>

appVars ==
    <<sourceLang, inputCode, outputCode, aiReady, isLoading, prevExample, runs,
      chatPending, toast>>

copyVars == <<copyProps, copied, copyWrites, copyTimers, copyLast, copyClicks, now>>

vars == <<pureVars, envVars, probeVars, appVars, copyVars>>

----------------------------------------------------------------------------
(* Characters and character classes of the regular expressions.            *)

\* the backtick (a TLA+ string cannot hold the character itself)
BT == "<backtick>"
NL == "\n"
SP == " "

FENCE == <<BT, BT, BT>>

LowerSeq ==
    <<"a", "b", "c", "d", "e", "f", "g", "h", "i", "j", "k", "l", "m",
      "n", "o", "p", "q", "r", "s", "t", "u", "v", "w", "x", "y", "z">>

UpperSeq ==
    <<"A", "B", "C", "D", "E", "F", "G", "H", "I", "J", "K", "L", "M",
      "N", "O", "P", "Q", "R", "S", "T", "U", "V", "W", "X", "Y", "Z">>

Lower == {LowerSeq[i] : i \in DOMAIN LowerSeq}

Upper == {UpperSeq[i] : i \in DOMAIN UpperSeq}

Digits == {"0", "1", "2", "3", "4", "5", "6", "7", "8", "9"}

\* \s of a JavaScript regular expression (the ASCII part of it)
Whitespace == {" ", "\n", "\t", "\r", "\f"}

\* [a-zA-Z0-9+\-._]
TagChars == Lower \cup Upper \cup Digits \cup {"+", "-", ".", "_"}

\* \w, which decides \b
WordChars == Lower \cup Upper \cup Digits \cup {"_"}

\* the canonical form the /i flag compares characters in
ToLower(c) ==
    IF c \in Upper
    THEN LowerSeq[CHOOSE i \in DOMAIN UpperSeq : UpperSeq[i] = c]
    ELSE c

----------------------------------------------------------------------------
(* String primitives.                                                      *)

\* s.startsWith(pat, p - 1): pat occurs in s at (1-based) position p
StartsWith(s, p, pat) ==
    /\ p >= 1
    /\ p + Len(pat) - 1 <= Len(s)
    /\ \A k \in 1..Len(pat) : s[p + k - 1] = pat[k]

\* s.slice(p - 1): the rest of s from (1-based) position p
From(s, p) == SubSeq(s, p, Len(s))

\* the least position >= p of s that does not hold a character of `class`
RECURSIVE SkipClass(_, _, _)
SkipClass(s, p, class) ==
    IF p <= Len(s) /\ s[p] \in class THEN SkipClass(s, p + 1, class) ELSE p

\* the greatest position <= p of s that does not hold a character of `class`
RECURSIVE SkipClassBack(_, _, _)
SkipClassBack(s, p, class) ==
    IF p >= 1 /\ s[p] \in class THEN SkipClassBack(s, p - 1, class) ELSE p

\* the least position >= p of s that holds character c, Len(s) + 1 if none
RECURSIVE FindChar(_, _, _)
FindChar(s, p, c) ==
    IF p <= Len(s) /\ s[p] # c THEN FindChar(s, p + 1, c) ELSE p

\* the least position >= p where pat occurs in s, 0 if none
RECURSIVE FindSeq(_, _, _)
FindSeq(s, p, pat) ==
    IF p + Len(pat) - 1 > Len(s) THEN 0
    ELSE IF StartsWith(s, p, pat) THEN p
    ELSE FindSeq(s, p + 1, pat)

\* String.prototype.trim
Trim(s) ==
    LET a == SkipClass(s, 1, Whitespace)
        b == SkipClassBack(s, Len(s), Whitespace)
    IN  IF a > b THEN <<>> ELSE SubSeq(s, a, b)

\* Array.prototype.join
RECURSIVE Join(_, _)
Join(list, sep) ==
    IF Len(list) = 0 THEN <<>>
    ELSE IF Len(list) = 1 THEN list[1]
    ELSE list[1] \o sep \o Join(Tail(list), sep)

\* every sequence over S of length at most n
RECURSIVE SeqsUpTo(_, _)
SeqsUpTo(S, n) ==
    IF n = 0 THEN {<<>>}
    ELSE LET P == SeqsUpTo(S, n - 1)
         IN  P \cup {Append(p, c) : p \in P, c \in S}

----------------------------------------------------------------------------
(* stripFences                                                             *)

NoMatch == [ok |-> FALSE, body |-> <<>>, end |-> 0]

\* One try of /```[a-zA-Z0-9+\-._]*\n([\s\S]*?)```/ at position p: the three
\* backticks, the longest run of tag characters (no shorter run can be followed
\* by the newline, which is no tag character), the newline, and the shortest
\* body that a closing ``` follows.  `end` is the position after the match.
FenceAt(s, p) ==
    IF ~StartsWith(s, p, FENCE) THEN NoMatch
    ELSE LET q == SkipClass(s, p + 3, TagChars)
         IN  IF ~(q <= Len(s) /\ s[q] = NL) THEN NoMatch
             ELSE LET c == FindSeq(s, q + 1, FENCE)
                  IN  IF c = 0 THEN NoMatch
                      ELSE [ok |-> TRUE, body |-> SubSeq(s, q + 1, c - 1), end |-> c + 3]

\* fenceRegex.exec(text) with lastIndex = p - 1: the leftmost match at or after p
RECURSIVE FenceExec(_, _)
FenceExec(s, p) ==
    IF p > Len(s) THEN NoMatch
    ELSE LET m == FenceAt(s, p)
         IN  IF m.ok THEN m ELSE FenceExec(s, p + 1)

\* the while loop: the captured bodies of the successive matches
RECURSIVE FenceMatches(_, _)
FenceMatches(s, p) ==
    LET m == FenceExec(s, p)
    IN  IF m.ok THEN <<m.body>> \o FenceMatches(s, m.end) ELSE <<>>

\* text.replace(/^\s*```[^\n]*\n?/, ""): leading blanks, the fence and the whole
\* rest of its line, the line's newline included
StripLeadingFence(s) ==
    LET a == SkipClass(s, 1, Whitespace)
    IN  IF StartsWith(s, a, FENCE)
        THEN From(s, FindChar(s, a + 3, NL) + 1)
        ELSE s

\* the least position p >= from with ``` at p and only blanks after it, 0 if none
RECURSIVE TrailingFenceAt(_, _)
TrailingFenceAt(s, p) ==
    IF p + 2 > Len(s) THEN 0
    ELSE IF StartsWith(s, p, FENCE) /\ SkipClass(s, p + 3, Whitespace) > Len(s) THEN p
    ELSE TrailingFenceAt(s, p + 1)

\* .replace(/```\s*$/, "")
StripTrailingFence(s) ==
    LET p == TrailingFenceAt(s, 1)
    IN  IF p = 0 THEN s ELSE SubSeq(s, 1, p - 1)

\* a slip in the separator: the bodies joined by a single newline
JoinBodies_SingleNewline(matches) == Trim(Join(matches, <<NL>>))

\* matches.join("\n\n").trim()
JoinBodies(matches) == Trim(Join(matches, <<NL, NL>>))

\* the fallback branch
StripStrayFences(s) == Trim(StripTrailingFence(StripLeadingFence(s)))

stripFences(text) ==
    LET matches == FenceMatches(text, 1)
    IN  IF Len(matches) > 0 THEN JoinBodies(matches) ELSE StripStrayFences(text)

----------------------------------------------------------------------------
(* truncateOutput                                                          *)

\* "\n\n// ...truncated (full output available for download) ..."
TRUNCATION_MARKER ==
    <<"\n", "\n", "/", "/", " ", ".", ".", ".", "t", "r", "u", "n", "c", "a",
      "t", "e", "d", " ", "(", "f", "u", "l", "l", " ", "o", "u", "t", "p", "u",
      "t", " ", "a", "v", "a", "i", "l", "a", "b", "l", "e", " ", "f", "o", "r",
      " ", "d", "o", "w", "n", "l", "o", "a", "d", ")", " ", ".", ".", ".">>

\* text.slice(0, n) for n >= 0: the first n code units, all of text if it is shorter
Slice0(text, n) == SubSeq(text, 1, IF n < Len(text) THEN n ELSE Len(text))

\* a slip in the comparison: a text of exactly maxLen code units is cut too
truncateOutput_StrictLess(text, maxLen) ==
    IF Len(text) < maxLen THEN text
    ELSE Slice0(text, maxLen) \o TRUNCATION_MARKER

truncateOutput(text, maxLen) ==
    IF Len(text) <= maxLen THEN text
    ELSE Slice0(text, maxLen) \o TRUNCATION_MARKER

----------------------------------------------------------------------------
(* hasDangerousShell                                                       *)

\* Elements of a pattern: a literal character, \s+, \b, and the empty group ().
Lit(str) == [i \in 1..Len(str) |-> [kind |-> "char", c |-> str[i]]]

SpacePlus == <<[kind |-> "space+", c |-> ""]>>

WordBoundary == <<[kind |-> "\\b", c |-> ""]>>

EmptyGroup == <<[kind |-> "()", c |-> ""]>>

\* the alternatives of
\* /(?:rm\s+-rf|sudo\b|mkfs\b|dd\s+if=|:(){:|forkbomb|chmod\s+777|curl\s+--|wget\s+--)/i
\* In `:(){:` the parentheses are an empty group and `{:` is literal text, so
\* that alternative matches the three characters `:{:`.
dangerous ==
    << Lit(<<"r", "m">>) \o SpacePlus \o Lit(<<"-", "r", "f">>),
       Lit(<<"s", "u", "d", "o">>) \o WordBoundary,
       Lit(<<"m", "k", "f", "s">>) \o WordBoundary,
       Lit(<<"d", "d">>) \o SpacePlus \o Lit(<<"i", "f", "=">>),
       Lit(<<":">>) \o EmptyGroup \o Lit(<<"{", ":">>),
       Lit(<<"f", "o", "r", "k", "b", "o", "m", "b">>),
       Lit(<<"c", "h", "m", "o", "d">>) \o SpacePlus \o Lit(<<"7", "7", "7">>),
       Lit(<<"c", "u", "r", "l">>) \o SpacePlus \o Lit(<<"-", "-">>),
       Lit(<<"w", "g", "e", "t">>) \o SpacePlus \o Lit(<<"-", "-">>) >>

IsWordAt(s, p) == p >= 1 /\ p <= Len(s) /\ s[p] \in WordChars

\* elements j.. of pat match s from position p on (a backtracking matcher)
RECURSIVE MatchFrom(_, _, _, _)
MatchFrom(s, p, pat, j) ==
    IF j > Len(pat) THEN TRUE
    ELSE LET e == pat[j]
         IN  CASE e.kind = "char" ->
                    /\ p <= Len(s)
                    /\ ToLower(s[p]) = ToLower(e.c)
                    /\ MatchFrom(s, p + 1, pat, j + 1)
               [] e.kind = "space+" ->
                    /\ p <= Len(s)
                    /\ s[p] \in Whitespace
                    /\ \/ MatchFrom(s, p + 1, pat, j)
                       \/ MatchFrom(s, p + 1, pat, j + 1)
               [] e.kind = "\\b" ->
                    /\ IsWordAt(s, p - 1) # IsWordAt(s, p)
                    /\ MatchFrom(s, p, pat, j + 1)
               [] e.kind = "()" -> MatchFrom(s, p, pat, j + 1)

\* dangerous.test(text): some alternative matches at some position
RegexTest(alternatives, s) ==
    \E p \in 1..(Len(s) + 1) :
        \E a \in DOMAIN alternatives : MatchFrom(s, p, alternatives[a], 1)

hasDangerousShell(text) == RegexTest(dangerous, text)

----------------------------------------------------------------------------
(* No call of sanitize.js made.                                            *)

NoBlocks == [blocks |-> <<>>, after |-> <<>>]

PureIdle ==
    /\ called = "none"
    /\ argText = <<>>
    /\ argMax = 0
    /\ argBlocks = NoBlocks
    /\ ret = <<>>
    /\ retAgain = <<>>
    /\ retBool = FALSE

----------------------------------------------------------------------------
(* The App component: its state before it is mounted.                      *)

Languages == {"JavaScript", "Python"}

\* the languages whose examples the model holds
ExampleLanguages == Languages \cup {"Ruby", "Swift"}

\* examples[lang], for these languages
examples ==
    [lang \in ExampleLanguages |->
       IF lang = "JavaScript"
       THEN << "f", "u", "n", "c", "t", "i", "o", "n", " ", "h", "e", "l", "l", "o",
       "W", "o", "r", "l", "d", "(", ")", " ", "{", "\n", " ", " ", "c", "o",
       "n", "s", "o", "l", "e", ".", "l", "o", "g", "(", "\"", "H", "e", "l",
       "l", "o", " ", "W", "o", "r", "l", "d", "!", "\"", ")", ";", "\n", "}" >>
       ELSE IF lang = "Python"
       THEN << "d", "e", "f", " ", "h", "e", "l", "l", "o", "_", "w", "o", "r", "l",
       "d", "(", ")", ":", "\n", " ", " ", " ", " ", "p", "r", "i", "n", "t",
       "(", "\"", "H", "e", "l", "l", "o", " ", "W", "o", "r", "l", "d", "!",
       "\"", ")", "\n" >>
       ELSE IF lang = "Ruby"
       THEN << "d", "e", "f", " ", "h", "e", "l", "l", "o", "_", "w", "o", "r", "l", "d",
       "\n", " ", " ", "p", "u", "t", "s", " ", "\"", "H", "e", "l", "l",
       "o", " ", "W", "o", "r", "l", "d", "!", "\"", "\n", "e", "n", "d" >>
       ELSE << "i", "m", "p", "o", "r", "t", " ", "F", "o", "u", "n", "d", "a", "t", "i",
       "o", "n", "\n", "p", "r", "i", "n", "t", "(", "\"", "H", "e", "l",
       "l", "o", " ", "W", "o", "r", "l", "d", "!", "\"", ")" >>]

Notice(kind, msg) == [kind |-> kind, msg |-> msg]

NoNotice == Notice("none", "")

AppIdle ==
    /\ sourceLang = "JavaScript"
    /\ inputCode = <<>>
    /\ outputCode = <<>>
    /\ aiReady = FALSE
    /\ isLoading = FALSE
    /\ prevExample = <<>>
    /\ runs = <<>>
    /\ chatPending = 0
    /\ toast = NoNotice

\* no CopyButton rendered
CopyIdle ==
    /\ copyProps = [text |-> <<>>, disabled |-> TRUE]
    /\ copied = FALSE
    /\ copyWrites = <<>>
    /\ copyTimers = <<>>
    /\ copyLast = [callback |-> "none", at |-> -1]
    /\ copyClicks = 0
    /\ now = 0

----------------------------------------------------------------------------
(* The host environment: window.puter and the capability object puter.ai.  *)

\* what `ai.ready` can be: missing, a promise (a thenable), or a function
ReadyShapes == {"absent", "promise", "function"}

\* what `ai.init` can be: missing, or a function that returns a promise,
\* returns something that is no promise, or throws
InitShapes == {"absent", "returns promise", "returns value", "throws"}

\* window.puter before the script has loaded
PuterAbsent ==
    [loaded |-> FALSE, ai |-> FALSE, ready |-> "absent", init |-> "absent", chat |-> FALSE,
     hangs |-> FALSE]

\* window.puter without a capability object
PuterWithoutAi ==
    [loaded |-> TRUE, ai |-> FALSE, ready |-> "absent", init |-> "absent", chat |-> FALSE,
     hangs |-> FALSE]

\* window.puter once loaded; `hangs` says that the promises puter gives never
\* settle (a service that does not answer)
PuterLoaded ==
    {PuterWithoutAi} \cup
    [loaded : {TRUE}, ai : {TRUE}, ready : ReadyShapes, init : InitShapes, chat : BOOLEAN,
     hangs : BOOLEAN]

\* window?.puter?.ai
AiPresent == puter.loaded /\ puter.ai

EnvIdle ==
    /\ puter = PuterAbsent
    /\ readyPromise = "pending"

\* the puter script finishes loading
PuterLoads ==
    /\ ~puter.loaded
    /\ puter' \in PuterLoaded
    /\ UNCHANGED readyPromise

----------------------------------------------------------------------------
(* checkAiReadyWithRetries / checkAiReadyOnce / promiseWithTimeout          *)

DEFAULT_ATTEMPTS == 3

DEFAULT_BASE_TIMEOUT == 8000

PING_TIMEOUT_CAP == 5000

BACKOFF_BASE == 2000

BACKOFF_CAP == 8000

Min(a, b) == IF a < b THEN a ELSE b

RECURSIVE Pow2(_)
Pow2(n) == IF n = 0 THEN 1 ELSE 2 * Pow2(n - 1)

\* Math.round(baseTimeout * (1 + i * 0.5)) for integers baseTimeout, i >= 0
TimeoutMs(baseTimeout, i) == (baseTimeout * (2 + i) + 1) \div 2

\* the backoff without the cap
Backoff_Uncapped(i) == BACKOFF_BASE * Pow2(i)

\* Math.min(2000 * Math.pow(2, i), 8000)
Backoff(i) == Min(BACKOFF_BASE * Pow2(i), BACKOFF_CAP)

\* Math.min(timeoutMs, 5000)
PingTimeout(timeoutMs) == Min(timeoutMs, PING_TIMEOUT_CAP)

ProbeIdle ==
    /\ prArgs = [attempts |-> 0, baseTimeout |-> 0, allowPing |-> FALSE]
    /\ prPc = "not called"
    /\ prI = 0
    /\ prLog = <<>>
    /\ prWaited = 0
    /\ prOk = FALSE

\* an entry of prLog: a capability call or a sleep of attempt prI, and the
\* milliseconds of its timer (0: the call is not awaited)
Event(ev, ms) == [ev |-> ev, i |-> prI, ms |-> ms]

\* awaiting the promise itself, without the race
promiseWithTimeout_NoTimer(promise, hangs) ==
    IF promise # "pending" THEN {promise}
    ELSE IF hangs THEN {}
    ELSE {"fulfilled", "rejected"}

\* How `await promiseWithTimeout(promise, ms)` can end: as the promise did
\* when it is settled already; else by the timer when the promise never
\* settles; else either way, whichever comes first.
promiseWithTimeout(promise, hangs) ==
    IF promise # "pending" THEN {promise}
    ELSE IF hangs THEN {"timeout"}
    ELSE {"fulfilled", "rejected", "timeout"}

prTimeoutMs == TimeoutMs(prArgs.baseTimeout, prI)

\* step 3 without the test of allowPing
PrPingOrFail_IgnoresSwitch(log) ==
    IF puter.chat
    THEN /\ prLog' = Append(log, Event("chat(ping)", PingTimeout(prTimeoutMs)))
         /\ prPc' = "await ping"
    ELSE /\ prLog' = log
         /\ prPc' = "backoff"

\* step 3 of checkAiReadyOnce: the ping, if it is allowed and ai.chat is a function;
\* otherwise the attempt returns false
PrPingOrFail(log) ==
    IF prArgs.allowPing /\ puter.chat
    THEN /\ prLog' = Append(log, Event("chat(ping)", PingTimeout(prTimeoutMs)))
         /\ prPc' = "await ping"
    ELSE /\ prLog' = log
         /\ prPc' = "backoff"

\* The head of the for loop and the synchronous part of checkAiReadyOnce, up to
\* its first await or its return.
PrAttempt ==
    /\ prPc = "loop"
    /\ IF prI >= prArgs.attempts
       THEN /\ prPc' = "done"
            /\ prOk' = FALSE
            /\ prLog' = prLog
       ELSE /\ prOk' = prOk
            /\ IF ~AiPresent
               THEN /\ prPc' = "backoff"
                    /\ prLog' = prLog
               ELSE IF puter.ready = "promise"
               THEN /\ prLog' = Append(prLog, Event("ready", prTimeoutMs))
                    /\ prPc' = "await ready"
               ELSE IF puter.init = "absent"
               THEN PrPingOrFail(prLog)
               ELSE IF puter.init = "throws"
               THEN /\ prLog' = Append(prLog, Event("init()", 0))
                    /\ prPc' = "backoff"
               ELSE IF puter.init = "returns promise"
               THEN /\ prLog' = Append(prLog, Event("init()", prTimeoutMs))
                    /\ prPc' = "await init"
               ELSE PrPingOrFail(Append(prLog, Event("init()", 0)))
    /\ UNCHANGED <<prArgs, prI, prWaited, pureVars, envVars, appVars, copyVars>>

\* The end of an awaited race in checkAiReadyOnce: `return true` when the
\* promise was fulfilled in time, the catch block (`return false`) when it
\* was rejected or the timer of ms milliseconds won.
PrAwaitEnds(outcome, ms) ==
    IF outcome = "fulfilled"
    THEN /\ prPc' = "done"
         /\ prOk' = TRUE
         /\ UNCHANGED prWaited
    ELSE /\ prPc' = "backoff"
         /\ prWaited' = IF outcome = "timeout" THEN prWaited + ms ELSE prWaited
         /\ UNCHANGED prOk

\* await promiseWithTimeout(ai.ready, timeoutMs)
PrReadySettles ==
    /\ prPc = "await ready"
    /\ \E outcome \in promiseWithTimeout(readyPromise, puter.hangs) :
          /\ PrAwaitEnds(outcome, prTimeoutMs)
          /\ readyPromise' = IF outcome = "timeout" THEN readyPromise ELSE outcome
    /\ UNCHANGED <<prArgs, prI, prLog, pureVars, puter, appVars, copyVars>>

\* await promiseWithTimeout(maybePromise, timeoutMs)
PrInitSettles ==
    /\ prPc = "await init"
    /\ \E outcome \in promiseWithTimeout("pending", puter.hangs) :
          PrAwaitEnds(outcome, prTimeoutMs)
    /\ UNCHANGED <<prArgs, prI, prLog, pureVars, envVars, appVars, copyVars>>

\* await promiseWithTimeout(ai.chat("ping"), Math.min(timeoutMs, 5000))
PrPingSettles ==
    /\ prPc = "await ping"
    /\ \E outcome \in promiseWithTimeout("pending", puter.hangs) :
          PrAwaitEnds(outcome, PingTimeout(prTimeoutMs))
    /\ UNCHANGED <<prArgs, prI, prLog, pureVars, envVars, appVars, copyVars>>

\* `if (ok) return true;` was not taken: the backoff sleep, then i++
PrBackoff ==
    /\ prPc = "backoff"
    /\ prLog' = Append(prLog, Event("sleep", Backoff(prI)))
    /\ prWaited' = prWaited + Backoff(prI)
    /\ prI' = prI + 1
    /\ prPc' = "loop"
    /\ UNCHANGED <<prArgs, prOk, pureVars, envVars, appVars, copyVars>>

\* the puter script loads while the prober runs
PrPuterLoads ==
    /\ PuterLoads
    /\ UNCHANGED <<pureVars, probeVars, appVars, copyVars>>

\* the largest `attempts` a run is called with
MaxAttempts == 4

\* the values of `baseTimeout`: the default, and an odd number of milliseconds
BaseTimeouts == {DEFAULT_BASE_TIMEOUT, 2999}

InitProbe ==
    /\ PureIdle
    /\ puter \in {PuterAbsent} \cup PuterLoaded
    /\ readyPromise = "pending"
    /\ prArgs \in [attempts : 1..MaxAttempts, baseTimeout : BaseTimeouts, allowPing : BOOLEAN]
    /\ prPc = "loop"
    /\ prI = 0
    /\ prLog = <<>>
    /\ prWaited = 0
    /\ prOk = FALSE
    /\ AppIdle
    /\ CopyIdle

NextProbe ==
    \/ PrAttempt
    \/ PrReadySettles
    \/ PrInitSettles
    \/ PrPingSettles
    \/ PrBackoff
    \/ PrPuterLoads

SpecProbe == InitProbe /\ [][NextProbe]_vars

\* The run goes on: the synchronous code runs, a timer that was set expires,
\* and the continuation of an await that has ended is run.
SpecProbeFair ==
    /\ SpecProbe
    /\ WF_vars(PrAttempt)
    /\ WF_vars(PrReadySettles)
    /\ WF_vars(PrInitSettles)
    /\ WF_vars(PrPingSettles)
    /\ WF_vars(PrBackoff)

----------------------------------------------------------------------------
(* App: the mount effect (initPuter).                                      *)

\* const ALLOW_PING = true
ALLOW_PING == TRUE

\* `for (let i = 0; i < 20; i++)`: the tries of the wait for window.puter
POLL_TRIES == 20

\* One run of initPuter: where it stands (pc), the loop variable of its wait
\* for window.puter (polls), and what it has done so far: how its call of
\* ai.ready() ended (ready), whether it called ai.chat("ping") (pinged), and
\* the value it passed to setAiReady (set).  It starts at the head of the loop.
NewRun == [pc |-> "poll", polls |-> 0, ready |-> "not settled", pinged |-> FALSE, set |-> "nothing"]

RunAt(r, pc) == r \in DOMAIN runs /\ runs[r].pc = pc

\* the state variables of App that initPuter does not touch
initPuterLeaves == <<sourceLang, inputCode, outputCode, isLoading, prevExample, chatPending>>

\* The iteration `if (window.puter) break; await sleep(300)` without puter.
\* The runs start in the same task and every one sleeps 300 ms at a time, so
\* their timers expire in the order the runs started: a run is never ahead
\* in the loop of a run that started before it.
RunPollSleeps(r) ==
    /\ RunAt(r, "poll")
    /\ ~puter.loaded
    /\ runs[r].polls < POLL_TRIES
    /\ \A q \in 1..(r - 1) : runs[q].pc = "poll" => runs[r].polls < runs[q].polls
    /\ runs' = [runs EXCEPT ![r].polls = @ + 1]
    /\ UNCHANGED <<initPuterLeaves, aiReady, toast>>
    /\ UNCHANGED <<pureVars, probeVars, envVars, copyVars>>

\* the loop ran out and `if (!window.puter)` holds: the error notice, return
RunPollGivesUp(r) ==
    /\ RunAt(r, "poll")
    /\ ~puter.loaded
    /\ runs[r].polls = POLL_TRIES
    /\ runs' = [runs EXCEPT ![r].pc = "done", ![r].polls = 0]
    /\ toast' = Notice("error", "Puter script not loaded!")
    /\ UNCHANGED <<initPuterLeaves, aiReady>>
    /\ UNCHANGED <<pureVars, probeVars, envVars, copyVars>>

\* window.puter is there: `await window.puter.user()`
RunPuterFound(r) ==
    /\ RunAt(r, "poll")
    /\ puter.loaded
    /\ runs' = [runs EXCEPT ![r].pc = "await user", ![r].polls = 0]
    /\ UNCHANGED <<initPuterLeaves, aiReady, toast>>
    /\ UNCHANGED <<pureVars, probeVars, envVars, copyVars>>

\* The fallback after `ready` gave nothing, for the run `run` of index r: with
\* ALLOW_PING the call window.puter.ai.chat("ping") (a TypeError when there is
\* no such function, caught), and without a ping in flight
\* `setAiReady(false)` and the return.
RunPingOrGiveUp(r, run) ==
    IF ALLOW_PING /\ AiPresent /\ puter.chat
    THEN /\ runs' = [runs EXCEPT ![r] = [run EXCEPT !.pc = "await ping", !.pinged = TRUE]]
         /\ UNCHANGED aiReady
    ELSE /\ runs' = [runs EXCEPT ![r] = [run EXCEPT !.pc = "done", !.set = "false"]]
         /\ aiReady' = FALSE

\* The awaits of initPuter and of handleConvert are on the promises puter
\* gives, with no timer beside them: they end when the promise settles, and
\* not at all when it never does (puter.hangs).

\* user() settled, either way: the call window.puter.ai.ready(), a TypeError
\* (caught) when puter.ai is missing or ai.ready is no function
RunUserSettles(r) ==
    /\ RunAt(r, "await user")
    /\ ~puter.hangs
    /\ IF AiPresent /\ puter.ready = "function"
       THEN /\ runs' = [runs EXCEPT ![r].pc = "await ready"]
            /\ UNCHANGED aiReady
       ELSE RunPingOrGiveUp(r, runs[r])
    /\ UNCHANGED <<initPuterLeaves, toast>>
    /\ UNCHANGED <<pureVars, probeVars, envVars, copyVars>>

\* `const ready = await window.puter.ai.ready()` is fulfilled with a truthy
\* value: setAiReady(true), return
RunReadyTruthy(r) ==
    /\ RunAt(r, "await ready")
    /\ ~puter.hangs
    /\ runs' = [runs EXCEPT ![r].pc = "done", ![r].ready = "truthy", ![r].set = "true"]
    /\ aiReady' = TRUE
    /\ UNCHANGED <<initPuterLeaves, toast>>
    /\ UNCHANGED <<pureVars, probeVars, envVars, copyVars>>

\* ... is fulfilled with a falsy value: `if (ready)` is not taken
RunReadyFalsy(r) ==
    /\ RunAt(r, "await ready")
    /\ ~puter.hangs
    /\ RunPingOrGiveUp(r, [runs[r] EXCEPT !.ready = "falsy"])
    /\ UNCHANGED <<initPuterLeaves, toast>>
    /\ UNCHANGED <<pureVars, probeVars, envVars, copyVars>>

\* ... is rejected: the catch block, then the fallback
RunReadyRejected(r) ==
    /\ RunAt(r, "await ready")
    /\ ~puter.hangs
    /\ RunPingOrGiveUp(r, [runs[r] EXCEPT !.ready = "rejected"])
    /\ UNCHANGED <<initPuterLeaves, toast>>
    /\ UNCHANGED <<pureVars, probeVars, envVars, copyVars>>

\* `await window.puter.ai.chat("ping")` is fulfilled: setAiReady(true), return
RunPingFulfilled(r) ==
    /\ RunAt(r, "await ping")
    /\ ~puter.hangs
    /\ runs' = [runs EXCEPT ![r].pc = "done", ![r].set = "true"]
    /\ aiReady' = TRUE
    /\ UNCHANGED <<initPuterLeaves, toast>>
    /\ UNCHANGED <<pureVars, probeVars, envVars, copyVars>>

\* ... is rejected: the code falls through to `setAiReady(false)`
RunPingRejected(r) ==
    /\ RunAt(r, "await ping")
    /\ ~puter.hangs
    /\ runs' = [runs EXCEPT ![r].pc = "done", ![r].set = "false"]
    /\ aiReady' = FALSE
    /\ UNCHANGED <<initPuterLeaves, toast>>
    /\ UNCHANGED <<pureVars, probeVars, envVars, copyVars>>

\* how often the mount effect runs at most
MaxEffectRuns == 2

\* initPuter has not got past its first await
AtFirstAwait(run) == (run.pc = "poll" /\ run.polls = 0) \/ run.pc = "await user"

\* The mount effect runs once more, right after its first run (React runs the
\* effects of a newly mounted component a second time under StrictMode); the
\* cleanup only sets `mounted`, which initPuter never reads.
EffectRunsAgain ==
    /\ Len(runs) < MaxEffectRuns
    /\ \A r \in DOMAIN runs : AtFirstAwait(runs[r])
    /\ runs' = Append(runs, NewRun)
    /\ UNCHANGED <<sourceLang, inputCode, outputCode, aiReady, isLoading, prevExample,
                   chatPending, toast>>
    /\ UNCHANGED <<pureVars, probeVars, envVars, copyVars>>

----------------------------------------------------------------------------
(* App: handleConvert, handleReset and the editor.                         *)

\* truncateOutput(cleaned, 200_000)
DISPLAY_MAX == 200000

\* react-hot-toast's `toast` has success, error, loading, custom, promise,
\* dismiss and remove, and no `warning`: toast.warning(...) throws a TypeError
ToastWarningIsFunction == FALSE

\* a reply of ai.chat: a string, an object with message.content, an object
\* whose message is an array of fragments, or anything else
StringReply(t) == [shape |-> "string", content |-> t, fragments |-> <<>>]

ObjectReply(t) == [shape |-> "object", content |-> t, fragments |-> <<>>]

ArrayReply(fs) == [shape |-> "array", content |-> <<>>, fragments |-> fs]

OtherReply == [shape |-> "other", content |-> <<>>, fragments |-> <<>>]

\* a fragment { content: t } and a fragment without content
Fragment(t) == [has |-> TRUE, content |-> t]

BareFragment == [has |-> FALSE, content |-> <<>>]

\* the map without filter(Boolean)
RECURSIVE FragmentTexts_KeepsEmpty(_)
FragmentTexts_KeepsEmpty(fs) ==
    IF Len(fs) = 0 THEN <<>>
    ELSE <<IF Head(fs).has THEN Head(fs).content ELSE <<>> >>
         \o FragmentTexts_KeepsEmpty(Tail(fs))

\* res.message.map((m) => m.content ?? "").filter(Boolean)
RECURSIVE FragmentTexts(_)
FragmentTexts(fs) ==
    IF Len(fs) = 0 THEN <<>>
    ELSE LET t == IF Head(fs).has THEN Head(fs).content ELSE <<>>
         IN  (IF t = <<>> THEN <<>> ELSE <<t>>) \o FragmentTexts(Tail(fs))

\* "parse common shapes": the text `reply` of the value `res`
ParseReply(res) ==
    IF res.shape = "string" THEN res.content
    ELSE IF res.shape = "object" /\ res.content # <<>> THEN res.content
    ELSE IF res.shape = "array" THEN Join(FragmentTexts(res.fragments), <<NL>>)
    ELSE <<>>

\* the replies the capability gives in the model
Replies ==
    { StringReply(<<"x">>),
      StringReply(<<SP, NL>>),
      StringReply(<<"r", "m", " ", "-", "r", "f", " ", "/">>),
      StringReply(FENCE \o <<"s", "h", NL, "s", "u", "d", "o", " ", "x", NL>> \o FENCE),
      StringReply(FENCE \o <<"x">> \o FENCE),
      ObjectReply(<<"y">>),
      ObjectReply(<<>>),
      ObjectReply(<<SP>>),
      ArrayReply(<<Fragment(<<SP>>)>>),
      ArrayReply(<<Fragment(<<"x">>), BareFragment, Fragment(<<>>), Fragment(<<"y">>)>>),
      ArrayReply(<<>>),
      OtherReply }

\* the button without `|| isLoading`
ConvertEnabled_IgnoresBusy == aiReady

\* the Convert button: disabled={!aiReady || isLoading}
ConvertEnabled == aiReady /\ ~isLoading

\* the test without trim()
BlankInput_NoTrim == inputCode = <<>>

\* !inputCode.trim()
BlankInput == Trim(inputCode) = <<>>

\* handleConvert up to `await window.puter.ai.chat(prompt)`.  The call throws a
\* TypeError when ai.chat is no function: catch, then finally.  The loading
\* notice names the two languages in the code; here it is one text.
HandleConvert ==
    /\ ConvertEnabled
    /\ IF BlankInput
       THEN /\ toast' = Notice("error", "Input code cannot be empty.")
            /\ UNCHANGED <<outputCode, isLoading, chatPending>>
       ELSE IF ~aiReady
       THEN /\ toast' = Notice("error", "AI service not ready. Please wait.")
            /\ UNCHANGED <<outputCode, isLoading, chatPending>>
       ELSE /\ outputCode' = <<>>
            /\ IF AiPresent /\ puter.chat
               THEN /\ isLoading' = TRUE
                    /\ chatPending' = chatPending + 1
                    /\ toast' = Notice("loading", "Converting...")
               ELSE /\ isLoading' = FALSE
                    /\ toast' = Notice("error", "Conversion failed: TypeError")
                    /\ UNCHANGED chatPending
    /\ UNCHANGED <<sourceLang, inputCode, aiReady, prevExample, runs>>
    /\ UNCHANGED <<pureVars, probeVars, envVars, copyVars>>

\* the rest of the try block once `res` is there; every throw ends in the catch
\* (the error notice), and the finally block clears the busy flag either way
ChatFulfilled(res) ==
    /\ chatPending > 0
    /\ ~puter.hangs
    /\ chatPending' = chatPending - 1
    /\ isLoading' = FALSE
    /\ LET reply == ParseReply(res)
           cleaned == stripFences(reply)
           displayed == truncateOutput(cleaned, DISPLAY_MAX)
       IN  IF Trim(reply) = <<>>
           THEN /\ toast' = Notice("error", "Conversion failed: Empty AI response.")
                /\ UNCHANGED outputCode
           ELSE IF hasDangerousShell(cleaned) /\ ~ToastWarningIsFunction
           THEN /\ toast' = Notice("error", "Conversion failed: toast.warning is not a function")
                /\ UNCHANGED outputCode
           ELSE /\ outputCode' = displayed
                /\ toast' = IF FindSeq(displayed, 1, <<"/", "/", " ", ".", ".", ".", "t", "r",
                                                        "u", "n", "c", "a", "t", "e", "d">>) # 0
                            THEN Notice("success", "Converted (truncated for display). Full output available for download.")
                            ELSE Notice("success", "Conversion successful!")
    /\ UNCHANGED <<sourceLang, inputCode, aiReady, prevExample, runs>>
    /\ UNCHANGED <<pureVars, probeVars, envVars, copyVars>>

\* a catch block that calls ai.chat(prompt) again
ChatRejected_Retries ==
    /\ chatPending > 0
    /\ toast' = Notice("loading", "Retrying...")
    /\ UNCHANGED <<sourceLang, inputCode, outputCode, aiReady, isLoading, prevExample,
                   runs, chatPending>>
    /\ UNCHANGED <<pureVars, probeVars, envVars, copyVars>>

\* `await window.puter.ai.chat(prompt)` is rejected
ChatRejected ==
    /\ chatPending > 0
    /\ ~puter.hangs
    /\ chatPending' = chatPending - 1
    /\ isLoading' = FALSE
    /\ toast' = Notice("error", "Conversion failed: request")
    /\ UNCHANGED <<sourceLang, inputCode, outputCode, aiReady, prevExample, runs>>
    /\ UNCHANGED <<pureVars, probeVars, envVars, copyVars>>

\* the Reset button: disabled={isLoading}
HandleReset ==
    /\ ~isLoading
    /\ inputCode' = examples[sourceLang]
    /\ prevExample' = examples[sourceLang]
    /\ outputCode' = <<>>
    /\ UNCHANGED <<sourceLang, aiReady, isLoading, runs, chatPending, toast>>
    /\ UNCHANGED <<pureVars, probeVars, envVars, copyVars>>

\* what the user types into the editor in the model: a blank (the example
\* that is there at first is the text that is not blank)
UserTexts == {<<SP>>}

\* CodeMirror's onChange={(v) => setInputCode(v)}
EditInput(v) ==
    /\ inputCode # v
    /\ inputCode' = v
    /\ UNCHANGED <<sourceLang, outputCode, aiReady, isLoading, prevExample, runs,
                   chatPending, toast>>
    /\ UNCHANGED <<pureVars, probeVars, envVars, copyVars>>

\* the test with the strings as they are
InputIsUnmodified_NoTrim == inputCode = <<>> \/ inputCode = prevExample

\* !currentTrim || currentTrim === prevTrim
InputIsUnmodified == Trim(inputCode) = <<>> \/ Trim(inputCode) = Trim(prevExample)

\* the From select (disabled={isLoading}) and the effect on [sourceLang]
ChangeSourceLang(lang) ==
    /\ ~isLoading
    /\ lang # sourceLang
    /\ sourceLang' = lang
    /\ IF InputIsUnmodified
       THEN /\ inputCode' = examples[lang]
            /\ prevExample' = examples[lang]
       ELSE UNCHANGED <<inputCode, prevExample>>
    /\ UNCHANGED <<outputCode, aiReady, isLoading, runs, chatPending, toast>>
    /\ UNCHANGED <<pureVars, probeVars, envVars, copyVars>>

\* the state after the first render and the first run of the mount effect
Init ==
    /\ PureIdle
    /\ ProbeIdle
    /\ CopyIdle
    /\ puter \in {PuterAbsent} \cup {p \in PuterLoaded : p.init = "absent"}
    /\ readyPromise = "pending"
    /\ sourceLang = "JavaScript"
    /\ inputCode = examples["JavaScript"]
    /\ outputCode = <<>>
    /\ aiReady = FALSE
    /\ isLoading = FALSE
    /\ prevExample = examples["JavaScript"]
    /\ runs = <<NewRun>>
    /\ chatPending = 0
    /\ toast = NoNotice

\* the puter script finishes loading; of what it offers the App reads
\* puter.ai, ai.ready and ai.chat
AppPuterLoads ==
    /\ PuterLoads
    /\ puter'.init = "absent"
    /\ UNCHANGED <<pureVars, probeVars, appVars, copyVars>>

Next ==
    \/ \E r \in 1..MaxEffectRuns : RunPollSleeps(r)
    \/ \E r \in 1..MaxEffectRuns : RunPollGivesUp(r)
    \/ \E r \in 1..MaxEffectRuns : RunPuterFound(r)
    \/ \E r \in 1..MaxEffectRuns : RunUserSettles(r)
    \/ \E r \in 1..MaxEffectRuns : RunReadyTruthy(r)
    \/ \E r \in 1..MaxEffectRuns : RunReadyFalsy(r)
    \/ \E r \in 1..MaxEffectRuns : RunReadyRejected(r)
    \/ \E r \in 1..MaxEffectRuns : RunPingFulfilled(r)
    \/ \E r \in 1..MaxEffectRuns : RunPingRejected(r)
    \/ EffectRunsAgain
    \/ AppPuterLoads
    \/ HandleConvert
    \/ \E res \in Replies : ChatFulfilled(res)
    \/ ChatRejected
    \/ HandleReset
    \/ \E v \in UserTexts : EditInput(v)
    \/ \E lang \in Languages : ChangeSourceLang(lang)

Spec == Init /\ [][Next]_vars

\* The editor alone: typing, the From select and the Reset button, before
\* the puter script has loaded.  The texts typed: nothing, a blank, a text of
\* the user's own, and every example with a blank after it or a newline
\* before it.
EditorTexts ==
    {<<>>, <<SP>>, <<"x">>}
    \cup {examples[lang] \o <<SP>> : lang \in ExampleLanguages}
    \cup {<<NL>> \o examples[lang] : lang \in ExampleLanguages}

InitEditor == Init /\ puter = PuterAbsent

NextEditor ==
    \/ \E v \in EditorTexts : EditInput(v)
    \/ \E lang \in ExampleLanguages : ChangeSourceLang(lang)
    \/ HandleReset

SpecEditor == InitEditor /\ [][NextEditor]_vars

\* a step of the run r of initPuter
RunStep(r) ==
    \/ RunPollSleeps(r)
    \/ RunPollGivesUp(r)
    \/ RunPuterFound(r)
    \/ RunUserSettles(r)
    \/ RunReadyTruthy(r)
    \/ RunReadyFalsy(r)
    \/ RunReadyRejected(r)
    \/ RunPingFulfilled(r)
    \/ RunPingRejected(r)

\* Every run of initPuter goes on: its 300 ms timers expire, its synchronous
\* code runs, and the continuation of an await is run once the awaited
\* promise has settled.
SpecFair == Spec /\ \A r \in 1..MaxEffectRuns : WF_vars(RunStep(r))

----------------------------------------------------------------------------
(* Applying the sanitizer to inputs drawn from bounded sets.               *)

\* the characters the inputs of stripFences are built from: a backtick, a
\* newline, a blank, and a tag character
StripAlphabet == {BT, NL, SP, "a"}

MaxTextLen == 7

InitStrip ==
    /\ called = "none"
    /\ argText \in SeqsUpTo(StripAlphabet, MaxTextLen)
    /\ argMax = 0
    /\ argBlocks = NoBlocks
    /\ ret = <<>>
    /\ retAgain = <<>>
    /\ retBool = FALSE
    /\ EnvIdle
    /\ ProbeIdle
    /\ AppIdle
    /\ CopyIdle

CallStripFences ==
    /\ called = "none"
    /\ called' = "stripFences"
    /\ ret' = stripFences(argText)
    /\ UNCHANGED <<argText, argMax, argBlocks, retAgain, retBool, envVars, probeVars, appVars, copyVars>>

CallStripFencesAgain ==
    /\ called = "stripFences"
    /\ called' = "stripFences twice"
    /\ retAgain' = stripFences(ret)
    /\ UNCHANGED <<argText, argMax, argBlocks, ret, retBool, envVars, probeVars, appVars, copyVars>>

NextStrip == CallStripFences \/ CallStripFencesAgain

SpecStrip == InitStrip /\ [][NextStrip]_vars

(* Inputs put together from fenced blocks: text, then for each block the    *)
(* text before it, ``` tag newline body ```, and the text after the last.   *)

OutsideTexts == {<<>>, <<"a", NL>>, <<BT, BT>>}

BlockTags == {<<>>, <<"p", "y">>}

BlockBodies ==
    { <<>>,
      <<"x">>,
      <<SP, "x", NL>>,
      <<BT, "x">>,
      <<"x", BT, BT, "y">>,
      <<NL, "x", NL, NL, "y">>,
      <<"x", BT>> }

MaxBlocks == 2

BlockText(b) == b.before \o FENCE \o b.tag \o <<NL>> \o b.body \o FENCE

RECURSIVE BlocksText(_)
BlocksText(bs) ==
    IF Len(bs) = 0 THEN <<>> ELSE BlockText(Head(bs)) \o BlocksText(Tail(bs))

InitBlocks ==
    /\ called = "none"
    /\ \E k \in 1..MaxBlocks :
         \E bs \in [1..k -> [before : OutsideTexts, tag : BlockTags, body : BlockBodies]] :
           \E after \in OutsideTexts :
             /\ argBlocks = [blocks |-> bs, after |-> after]
             /\ argText = BlocksText(bs) \o after
    /\ argMax = 0
    /\ ret = <<>>
    /\ retAgain = <<>>
    /\ retBool = FALSE
    /\ EnvIdle
    /\ ProbeIdle
    /\ AppIdle
    /\ CopyIdle

SpecBlocks == InitBlocks /\ [][NextStrip]_vars

(* truncateOutput on strings of plain characters and surrogate halves.      *)

\* a high (leading) and a low (trailing) surrogate code unit
HS == "<D83D>"
LS == "<DE00>"

TruncAlphabet == {"a", HS, LS}

MaxTruncLen == 4

InitTruncate ==
    /\ called = "none"
    /\ argText \in SeqsUpTo(TruncAlphabet, MaxTruncLen)
    /\ argMax \in 0..(MaxTruncLen + 1)
    /\ argBlocks = NoBlocks
    /\ ret = <<>>
    /\ retAgain = <<>>
    /\ retBool = FALSE
    /\ EnvIdle
    /\ ProbeIdle
    /\ AppIdle
    /\ CopyIdle

CallTruncateOutput ==
    /\ called = "none"
    /\ called' = "truncateOutput"
    /\ ret' = truncateOutput(argText, argMax)
    /\ UNCHANGED <<argText, argMax, argBlocks, retAgain, retBool, envVars, probeVars, appVars, copyVars>>

NextTruncate == CallTruncateOutput

SpecTruncate == InitTruncate /\ [][NextTruncate]_vars

(* hasDangerousShell on command lines: words joined by single blanks.       *)

FORK_BOMB == <<":", "(", ")", "{", " ", ":", "|", ":", "&", " ", "}", ";", ":">>

ShellWords ==
    { <<"r", "m">>, <<"-", "r", "f">>, <<"/">>, <<"s", "u", "d", "o">>,
      <<"m", "k", "f", "s">>, <<"d", "d">>, <<"i", "f", "=">>, FORK_BOMB,
      <<"c", "h", "m", "o", "d">>, <<"7", "7", "7">>, <<"c", "u", "r", "l">>,
      <<"w", "g", "e", "t">>, <<"-", "-">>, <<"R", "m">>, <<"S", "U", "D", "O">>,
      <<"p", "r", "i", "n", "t", "(", "'", "h", "e", "l", "l", "o", "'", ")">> }

MaxWords == 2

RECURSIVE CommandLines(_)
CommandLines(n) ==
    IF n = 1 THEN ShellWords
    ELSE LET P == CommandLines(n - 1)
         IN  P \cup {p \o <<SP>> \o w : p \in P, w \in ShellWords}

InitShell ==
    /\ called = "none"
    /\ argText \in CommandLines(MaxWords)
    /\ argMax = 0
    /\ argBlocks = NoBlocks
    /\ ret = <<>>
    /\ retAgain = <<>>
    /\ retBool = FALSE
    /\ EnvIdle
    /\ ProbeIdle
    /\ AppIdle
    /\ CopyIdle

CallHasDangerousShell ==
    /\ called = "none"
    /\ called' = "hasDangerousShell"
    /\ retBool' = hasDangerousShell(argText)
    /\ UNCHANGED <<argText, argMax, argBlocks, ret, retAgain, envVars, probeVars, appVars, copyVars>>

NextShell == CallHasDangerousShell

SpecShell == InitShell /\ [][NextShell]_vars

----------------------------------------------------------------------------
(* Properties of the sanitizer.                                            *)

\* C1: stripFences is idempotent: applying it to its own result returns that
\* result again, for every input.
C1_StripFencesIdempotent ==
    called = "stripFences twice" => retAgain = ret

HasFencedBlock(s) == Len(FenceMatches(s, 1)) > 0

\* What C3 allows stripFences to return for s: s without one leading fence
\* marker and its language tag, without one trailing fence marker, trimmed.
\* Read generously: the marker may be a longer run of backticks, the tag any
\* part of the run of tag characters after it, with the newline ending it.
MarkersOnlyStripped(s) ==
    LET a == SkipClass(s, 1, Whitespace)
        q == SkipClass(s, SkipClass(s, a + 3, {BT}), TagChars)
        rest(k) == IF k = q /\ q <= Len(s) /\ s[q] = NL THEN From(s, q + 1) ELSE From(s, k)
    IN  IF StartsWith(s, a, FENCE)
        THEN {Trim(StripTrailingFence(rest(k))) : k \in (a + 3)..q}
        ELSE {Trim(StripTrailingFence(s))}

\* C3: on an input without a complete fenced block stripFences removes only
\* one leading fence marker with its language tag and one trailing fence
\* marker and trims; all other text, what follows the leading marker on its
\* line included, is kept.
C3_FallbackKeepsOtherText ==
    (called = "stripFences" /\ ~HasFencedBlock(argText))
        => ret \in MarkersOnlyStripped(argText)

\* the closing marker of a block is the first ``` after its opening line
BodyEndsAtClosingFence(body) == FindSeq(body \o FENCE, 1, FENCE) = Len(body) + 1

\* no text outside the blocks opens a block of its own: a ``` in it has no
\* newline after it
NoOpeningIn(outside) ==
    \A p \in 1..Len(outside) :
        StartsWith(outside, p, FENCE) => FindChar(outside, p + 3, NL) > Len(outside)

WellFormedBlocks(ab) ==
    /\ Len(ab.blocks) >= 1
    /\ NoOpeningIn(ab.after)
    /\ \A i \in 1..Len(ab.blocks) :
         /\ NoOpeningIn(ab.blocks[i].before)
         /\ \A k \in 1..Len(ab.blocks[i].tag) : ab.blocks[i].tag[k] \in TagChars
         /\ BodyEndsAtClosingFence(ab.blocks[i].body)

BodiesOf(ab) == [i \in 1..Len(ab.blocks) |-> ab.blocks[i].body]

\* C2: for an input holding k >= 1 fenced blocks stripFences returns the
\* bodies of the blocks, in input order, joined by a blank line and trimmed;
\* the text outside the blocks is dropped.
C2_BlocksJoinedAndTrimmed ==
    (called = "stripFences" /\ WellFormedBlocks(argBlocks))
        => ret = Trim(Join(BodiesOf(argBlocks), <<NL, NL>>))

\* two blocks with text before, between and after them, joined by a blank line
C2_Witness ==
    /\ called = "stripFences"
    /\ WellFormedBlocks(argBlocks)
    /\ Len(argBlocks.blocks) = 2
    /\ argBlocks.blocks[1].before # <<>>
    /\ argBlocks.blocks[2].before # <<>>
    /\ argBlocks.after # <<>>
    /\ ret = <<"x", NL, NL, BT, "x">>

\* C4: truncateOutput returns text unchanged when text.length <= maxLen, and
\* otherwise the first maxLen code units of text followed by the truncation
\* marker, a string of length maxLen + the marker's length.
C4_TruncateOutputResult ==
    called = "truncateOutput" =>
        IF Len(argText) <= argMax
        THEN ret = argText
        ELSE /\ ret = SubSeq(argText, 1, argMax) \o TRUNCATION_MARKER
             /\ Len(ret) = argMax + Len(TRUNCATION_MARKER)

\* a text of exactly maxLen code units is returned whole, a longer one is cut
C4_Witness ==
    /\ called = "truncateOutput"
    /\ argMax = 2
    /\ Len(argText) = 3
    /\ ret = SubSeq(argText, 1, 2) \o TRUNCATION_MARKER

\* every high surrogate is followed by a low one, every low one follows a high one
WellFormedUtf16(s) ==
    \A p \in 1..Len(s) :
        /\ s[p] = HS => (p < Len(s) /\ s[p + 1] = LS)
        /\ s[p] = LS => (p > 1 /\ s[p - 1] = HS)

\* C5: truncateOutput cuts on a code-point boundary: the prefix it keeps of a
\* well-formed text never ends with one half of a surrogate pair.
C5_TruncatesOnCodePointBoundary ==
    (called = "truncateOutput" /\ Len(argText) > argMax /\ WellFormedUtf16(argText))
        => WellFormedUtf16(SubSeq(ret, 1, Len(ret) - Len(TRUNCATION_MARKER)))

\* pat occurs in s, letter case ignored
ContainsIgnoringCase(s, pat) ==
    \E p \in 1..(Len(s) + 1) :
        /\ p + Len(pat) - 1 <= Len(s)
        /\ \A k \in 1..Len(pat) : ToLower(s[p + k - 1]) = ToLower(pat[k])

\* the risk indicators C6 lists
ListedIndicators ==
    { <<"r", "m", " ", "-", "r", "f">>, <<"s", "u", "d", "o">>, <<"m", "k", "f", "s">>,
      <<"d", "d", " ", "i", "f", "=">>, FORK_BOMB,
      <<"c", "h", "m", "o", "d", " ", "7", "7", "7">>,
      <<"c", "u", "r", "l", " ", "-", "-">>, <<"w", "g", "e", "t", " ", "-", "-">> }

\* C6: hasDangerousShell is true, whatever the letter case, for every text
\* that contains one of the listed risk indicators, and false for a text
\* that contains none of them.
C6_DetectsListedIndicators ==
    called = "hasDangerousShell" =>
        (retBool <=> \E pat \in ListedIndicators : ContainsIgnoringCase(argText, pat))

----------------------------------------------------------------------------
(* Properties of the readiness probes.                                     *)

\* C8: with the capability object absent the readiness probe returns false
\* at once: no timeout wait, no backoff sleep, no polling delay.
C8_AbsentCapabilityReturnsAtOnce ==
    (prPc = "done" /\ ~AiPresent) => (prOk = FALSE /\ prWaited = 0 /\ prLog = <<>>)

\* C9: when the call of `ready` is fulfilled, whatever the value, the probe
\* marks readiness true and returns at once; that run never calls
\* chat("ping") (init() it never calls at all).
C9_ReadyFulfilledEndsProbe ==
    \A r \in DOMAIN runs :
        runs[r].ready \in {"truthy", "falsy"} =>
            (runs[r].pc = "done" /\ runs[r].set = "true" /\ ~runs[r].pinged)

\* the run r of initPuter issues a probe signal in this step
IssuesSignal(r) ==
    /\ runs'[r].pc \in {"await ready", "await ping"}
    /\ runs'[r].pc # runs[r].pc

\* C10: the readiness flag is monotonic: once true it stays true in every
\* later step (of the startup probe, of a second run of the mount effect, of
\* a conversion or a reset), and no probe signal is issued once it is true.
C10_ReadinessNeverReverts ==
    [][aiReady => (aiReady' /\ \A r \in DOMAIN runs : ~IssuesSignal(r))]_vars

\* C7: the dangerous-shell check is advisory: when a conversion's call is
\* fulfilled with a reply that is not blank, the sanitized and truncated
\* text becomes the displayed result, and the conversion does not end in an
\* error notice, whether or not hasDangerousShell holds of the text.
C7_DangerCheckIsAdvisory ==
    [][\A res \in Replies :
          (ChatFulfilled(res) /\ Trim(ParseReply(res)) # <<>>) =>
              /\ outputCode' = truncateOutput(stripFences(ParseReply(res)), DISPLAY_MAX)
              /\ toast'.kind # "error"]_vars

----------------------------------------------------------------------------
(* Properties of the conversion handler.                                   *)

\* a text that is empty or holds white space only
WhitespaceOnly(t) == \A k \in DOMAIN t : t[k] \in Whitespace

EmptyInputNotice == Notice("error", "Input code cannot be empty.")

NotReadyNotice == Notice("error", "AI service not ready. Please wait.")

EmptyResponseNotice == Notice("error", "Conversion failed: Empty AI response.")

C12_OneCallPerTrigger ==
    [][/\ (HandleConvert /\ ~WhitespaceOnly(inputCode) /\ aiReady /\ puter.chat) =>
              chatPending' = chatPending + 1
       /\ (chatPending' > chatPending) => (HandleConvert /\ chatPending' = chatPending + 1)
       /\ ChatRejected => (chatPending' = chatPending - 1 /\ toast'.kind = "error")
       /\ \A res \in Replies :
              (ChatFulfilled(res) /\ WhitespaceOnly(ParseReply(res))) =>
                  (chatPending' = chatPending - 1 /\ toast'.kind = "error")]_vars

\* a call was rejected: the error notice, nothing in flight, not busy
C12_Witness ==
    /\ toast = Notice("error", "Conversion failed: request")
    /\ chatPending = 0
    /\ ~isLoading
    /\ aiReady

\* C13: at most one conversion call is unsettled at any time, and the busy
\* flag is true as long as one is.
C13_AtMostOneInFlight == chatPending <= 1 /\ (chatPending > 0 => isLoading)

\* a call is in flight while the user goes on typing
C13_Witness == chatPending = 1 /\ isLoading /\ inputCode = <<SP>>

\* the fragment texts that are not empty, in order, a newline between them
RECURSIVE JoinedByNewline(_)
JoinedByNewline(fs) ==
    IF fs = <<>> THEN <<>>
    ELSE IF ~Head(fs).has \/ Head(fs).content = <<>> THEN JoinedByNewline(Tail(fs))
    ELSE LET rest == JoinedByNewline(Tail(fs))
         IN  IF rest = <<>> THEN Head(fs).content ELSE Head(fs).content \o <<NL>> \o rest

\* the text a reply stands for: the string, the one textual field, the
\* fragments joined, and nothing for any other shape
NormalizedReply(res) ==
    CASE res.shape = "string" -> res.content
      [] res.shape = "object" -> res.content
      [] res.shape = "array" -> JoinedByNewline(res.fragments)
      [] OTHER -> <<>>

\* C14: the reply is normalized by its shape, and a normalized reply that is
\* empty or white space only makes the conversion fail with the 'Empty AI
\* response' error and sets no result; any other reply does not end in that
\* error, and the result a success sets is made from the normalized text.
C14_ReplyNormalization ==
    [][\A res \in Replies :
          ChatFulfilled(res) =>
              IF WhitespaceOnly(NormalizedReply(res))
              THEN toast' = EmptyResponseNotice /\ outputCode' = outputCode
              ELSE /\ toast' # EmptyResponseNotice
                   /\ toast'.kind = "success" =>
                          outputCode' = truncateOutput(stripFences(NormalizedReply(res)),
                                                       DISPLAY_MAX)]_vars

\* a reply of fragments has become the result: the texts "x" and "y" of four
\* fragments, one without content and one with an empty content
C14_Witness == outputCode = <<"x", NL, "y">> /\ toast.kind = "success"

----------------------------------------------------------------------------
(* CopyButton: handleCopy, the clipboard write and the revert timers.      *)

\* setTimeout(() => setCopied(false), 1500)
COPIED_MS == 1500

\* the step of the clock: a third of the revert delay
TICK_MS == COPIED_MS \div 3

\* the guard without `!text`
CopyEnabled_IgnoresText(props) == ~props.disabled

\* `if (disabled || !text) return;` and the button's disabled={disabled || !text}
CopyEnabled(props) == ~props.disabled /\ props.text # <<>>

\* the texts and the disabled flags the parent passes
CopyPropsSet == [text : {<<>>, <<"x">>}, disabled : BOOLEAN]

\* how many times the button is clicked at most
MaxCopies == 3

\* a click on the button: handleCopy up to `await navigator.clipboard.writeText(text)`
HandleCopy ==
    /\ copyClicks < MaxCopies
    /\ copyClicks' = copyClicks + 1
    /\ IF CopyEnabled(copyProps)
       THEN copyWrites' = Append(copyWrites, copyProps)
       ELSE UNCHANGED copyWrites
    /\ UNCHANGED <<copyProps, copied, copyTimers, copyLast, now>>
    /\ UNCHANGED <<pureVars, envVars, probeVars, appVars>>

\* the sequence without its k-th element
RemoveAt(seq, k) == SubSeq(seq, 1, k - 1) \o SubSeq(seq, k + 1, Len(seq))

\* a writeText call is fulfilled: setCopied(true), onSuccess(), setTimeout
CopyWriteFulfilled(k) ==
    /\ k \in DOMAIN copyWrites
    /\ copyWrites' = RemoveAt(copyWrites, k)
    /\ copied' = TRUE
    /\ copyLast' = [callback |-> "onSuccess", at |-> now]
    /\ copyTimers' = Append(copyTimers, now + COPIED_MS)
    /\ UNCHANGED <<copyProps, copyClicks, now>>
    /\ UNCHANGED <<pureVars, envVars, probeVars, appVars>>

\* a writeText call is rejected: the catch block, onError(err)
CopyWriteRejected(k) ==
    /\ k \in DOMAIN copyWrites
    /\ copyWrites' = RemoveAt(copyWrites, k)
    /\ copyLast' = [copyLast EXCEPT !.callback = "onError"]
    /\ UNCHANGED <<copyProps, copied, copyTimers, copyClicks, now>>
    /\ UNCHANGED <<pureVars, envVars, probeVars, appVars>>

\* a timer is due: () => setCopied(false)
CopyTimerDue == copyTimers # <<>> /\ Head(copyTimers) <= now

CopyTimerFires ==
    /\ CopyTimerDue
    /\ copied' = FALSE
    /\ copyTimers' = Tail(copyTimers)
    /\ UNCHANGED <<copyProps, copyWrites, copyLast, copyClicks, now>>
    /\ UNCHANGED <<pureVars, envVars, probeVars, appVars>>

\* the parent renders the button with other props
CopyPropsChange(props) ==
    /\ props # copyProps
    /\ copyProps' = props
    /\ UNCHANGED <<copied, copyWrites, copyTimers, copyLast, copyClicks, now>>
    /\ UNCHANGED <<pureVars, envVars, probeVars, appVars>>

\* how long the clock runs on its own; it runs on while a timer is pending
MaxTicks == 4

\* time passes; a due timer's callback runs before any later moment
CopyTick ==
    /\ ~CopyTimerDue
    /\ now < MaxTicks * TICK_MS \/ copyTimers # <<>>
    /\ now' = now + TICK_MS
    /\ UNCHANGED <<copyProps, copied, copyWrites, copyTimers, copyLast, copyClicks>>
    /\ UNCHANGED <<pureVars, envVars, probeVars, appVars>>

InitCopy ==
    /\ PureIdle
    /\ EnvIdle
    /\ ProbeIdle
    /\ AppIdle
    /\ copyProps \in CopyPropsSet
    /\ copied = FALSE
    /\ copyWrites = <<>>
    /\ copyTimers = <<>>
    /\ copyLast = [callback |-> "none", at |-> -1]
    /\ copyClicks = 0
    /\ now = 0

NextCopy ==
    \/ HandleCopy
    \/ \E k \in 1..MaxCopies : CopyWriteFulfilled(k)
    \/ \E k \in 1..MaxCopies : CopyWriteRejected(k)
    \/ CopyTimerFires
    \/ \E props \in CopyPropsSet : CopyPropsChange(props)
    \/ CopyTick

SpecCopy == InitCopy /\ [][NextCopy]_vars

\* C15: a successful copy makes `copied` true and arms its revert 1.5 s
\* later, whatever happens in between; once all the timers have fired the
\* state is false; the state is never true later than 1.5 s after the
\* latest success; and only a click on an enabled button with a non-empty
\* text starts a write, so a failed, disabled or empty copy never sets the
\* state to true.
C15_CopiedStateReverts ==
    /\ copyTimers = <<>> => ~copied
    /\ copied => (copyLast.at >= 0 /\ now <= copyLast.at + 1500)
    /\ (copyLast.at >= 0 /\ now < copyLast.at + 1500) =>
           (\E k \in DOMAIN copyTimers : copyTimers[k] = copyLast.at + 1500)
    /\ \A k \in DOMAIN copyWrites : ~copyWrites[k].disabled /\ copyWrites[k].text # <<>>

\* two copies in quick succession: the first one's timer has fired, the
\* second one's is still pending, and the state is already false
C15_Witness ==
    /\ ~copied
    /\ Len(copyTimers) = 1
    /\ copyLast.at >= 0
    /\ copyTimers[1] = copyLast.at + 1500
    /\ now < copyTimers[1]

----------------------------------------------------------------------------
(* Properties of the retrying prober and of the startup probe.             *)

\* the signals an attempt can try with the capability as it is
ApplicableSignals ==
    (IF puter.ready = "promise" THEN {"ready"} ELSE {})
    \cup (IF puter.init # "absent" THEN {"init()"} ELSE {})
    \cup (IF prArgs.allowPing /\ puter.chat THEN {"chat(ping)"} ELSE {})

\* the place of an entry in an attempt: ready, init(), chat("ping"), sleep
SignalRank(ev) ==
    CASE ev = "ready" -> 1 [] ev = "init()" -> 2 [] ev = "chat(ping)" -> 3 [] OTHER -> 4

\* the entries of one attempt come in the order ready, init(), chat("ping")
InSignalOrder(log) ==
    \A j, k \in DOMAIN log :
        (j < k /\ log[j].i = log[k].i) => SignalRank(log[j].ev) < SignalRank(log[k].ev)

\* C16: in one attempt the signals are tried in the order ready, init(),
\* chat("ping"); a signal that throws or times out does not end the attempt,
\* which fails (and goes to the backoff sleep) only when every applicable
\* signal has been tried in it.
C16_AttemptTriesEverySignal ==
    [][/\ InSignalOrder(prLog')
       /\ (AiPresent /\ prPc # "backoff" /\ prPc' = "backoff") =>
              \A sig \in ApplicableSignals :
                  \E k \in DOMAIN prLog' : prLog'[k].ev = sig /\ prLog'[k].i = prI]_vars

\* the timeout, doubled, as the claim gives it: 2 * baseTimeout * (1 + 0.5 * i)
TwiceClaimedTimeout(i) == prArgs.baseTimeout * (2 + i)

\* min(2000 * 2^i, 8000): 2000, 4000, 8000, 8000, ...
ClaimedSleep(i) == IF i = 0 THEN 2000 ELSE IF i = 1 THEN 4000 ELSE 8000

\* one sleep after each attempt that has ended without success, none before
\* the first attempt
SleepsFollowAttempts ==
    LET sleeps == SelectSeq(prLog, LAMBDA e : e.ev = "sleep")
    IN  /\ Len(sleeps) = prI
        /\ \A k \in DOMAIN sleeps : sleeps[k].i = k - 1 /\ sleeps[k].ms = ClaimedSleep(k - 1)

\* C17, as claimed: in attempt i ready and init are awaited for exactly
\* baseTimeout * (1 + 0.5 * i) ms, the ping for the smaller of that and
\* 5000 ms, and a failed attempt i is followed by a sleep of
\* min(2000 * 2^i, 8000) ms; no sleep precedes the first attempt.
C17_ProbeSchedule ==
    /\ SleepsFollowAttempts
    /\ \A k \in DOMAIN prLog :
          LET e == prLog[k]
          IN  /\ (e.ev \in {"ready", "init()"} /\ e.ms # 0) => 2 * e.ms = TwiceClaimedTimeout(e.i)
              /\ e.ev = "chat(ping)" =>
                     2 * e.ms = (IF TwiceClaimedTimeout(e.i) < 10000
                                 THEN TwiceClaimedTimeout(e.i) ELSE 10000)

\* ms is the claimed timeout of attempt i rounded to a whole number of
\* milliseconds, a half rounded up
IsRoundedTimeout(ms, i) == 2 * ms - TwiceClaimedTimeout(i) \in {0, 1}

\* C17, amended: the timeout of attempt i is baseTimeout * (1 + 0.5 * i)
\* rounded to the nearest millisecond (a half rounded up); the rest as
\* claimed.
C17_ProbeScheduleRounded ==
    /\ SleepsFollowAttempts
    /\ \A k \in DOMAIN prLog :
          LET e == prLog[k]
          IN  /\ (e.ev \in {"ready", "init()"} /\ e.ms # 0) => IsRoundedTimeout(e.ms, e.i)
              /\ e.ev = "chat(ping)" =>
                     \/ e.ms < 5000 /\ IsRoundedTimeout(e.ms, e.i)
                     \/ e.ms = 5000 /\ TwiceClaimedTimeout(e.i) >= 9999

\* four attempts have failed, with an odd base timeout: ready was awaited
\* 4499 ms in attempt 1, and the sleeps were 2000, 4000, 8000, 8000 ms
C17_Witness ==
    /\ prPc = "done"
    /\ ~prOk
    /\ prI = 4
    /\ prArgs.baseTimeout = 2999
    /\ \E k \in DOMAIN prLog : prLog[k] = [ev |-> "ready", i |-> 1, ms |-> 4499]
    /\ prWaited >= 22000

\* C18: the retrying prober always terminates: it makes at most `attempts`
\* attempts, returns true as soon as an attempt succeeds and does nothing
\* after that, and returns false after `attempts` failed attempts, also when
\* a signal of the capability never settles.
C18_ProberTerminates ==
    /\ <>(prPc = "done")
    /\ [](prI <= prArgs.attempts)
    /\ []((prPc = "done" /\ prOk) => prI < prArgs.attempts)
    /\ []((prPc = "done" /\ ~prOk) => prI = prArgs.attempts)
    /\ [][prPc = "done" => UNCHANGED probeVars]_vars

\* the prober has returned false though none of the capability's promises
\* ever settled: every await ended by its timer
C18_Witness ==
    /\ prPc = "done"
    /\ ~prOk
    /\ puter.hangs
    /\ prArgs.attempts = 2
    /\ \E k \in DOMAIN prLog : prLog[k].ev = "chat(ping)" /\ prLog[k].i = 1

\* every run of initPuter has returned
AllRunsDone == \A r \in DOMAIN runs : runs[r].pc = "done"

\* C19: the startup probe always reaches a final outcome, the flag true or
\* the probe given up with the flag false; it cannot stay pending for ever
\* because a call of the capability does not settle.
C19_StartupProbeSettles == <>[]AllRunsDone

\* C20: with active probing switched off the prober never calls
\* chat("ping"), and when it reports readiness then a ready or an init
\* signal was awaited.
C20_NoPingWithSwitchOff ==
    ~prArgs.allowPing =>
        /\ \A k \in DOMAIN prLog : prLog[k].ev # "chat(ping)"
        /\ (prPc = "done" /\ prOk) =>
               \E k \in DOMAIN prLog : prLog[k].ev \in {"ready", "init()"} /\ prLog[k].ms # 0

\* the prober has gone through its attempts with the switch off and a
\* capability that offers chat and nothing else: no call, not ready
C20_Witness ==
    /\ prPc = "done"
    /\ ~prArgs.allowPing
    /\ prArgs.attempts > 0
    /\ AiPresent
    /\ puter.chat
    /\ puter.ready = "absent"
    /\ puter.init = "absent"
    /\ ~prOk
    /\ \A k \in DOMAIN prLog : prLog[k].ev = "sleep"

----------------------------------------------------------------------------
(* Properties of the busy flag and of the editor.                          *)

\* C21: whenever the call of a conversion settles, in success or in any
\* failure, the busy flag is false again and the convert action is enabled
\* again; the busy flag is true only while a call is unsettled; and a
\* conversion that ends in an error leaves the displayed result empty.
C21_ConversionErrorsAreRecovered ==
    [][/\ (chatPending' < chatPending) =>
              /\ ~isLoading'
              /\ ConvertEnabled'
              /\ toast'.kind = "error" => outputCode' = <<>>
       /\ isLoading' => chatPending' > 0]_vars

\* the text without the white space at its two ends
Core(t) ==
    LET inner == {k \in DOMAIN t : t[k] \notin Whitespace}
    IN  IF inner = {} THEN <<>>
        ELSE SubSeq(t, CHOOSE k \in inner : \A j \in inner : k <= j,
                       CHOOSE k \in inner : \A j \in inner : k >= j)

\* after a replacement or a reset the remembered example is the inserted one
ResetInsertsTheExample ==
    HandleReset => (inputCode' = examples[sourceLang] /\ prevExample' = inputCode')

====
